---- MODULE Spec2Model ----
(***************************************************************************)
(* Pairs-trading engine of src/bot.py (PairsTradingBot, TradeLogger) run   *)
(* by the driver loop of src/main.py (run_bot) or src/bot.py (run).        *)
(*                                                                         *)
(* Numbers.  Z-scores and z-score thresholds are integers in tenths        *)
(* (1.5 is 15); NaN is the float NaN the rolling statistics produce, every *)
(* comparison with it is false.  Quantities are integers in quarters of a  *)
(* lot step; a fraction (PARTIAL_EXIT_PCT) is an integer in quarters       *)
(* (0.5 is 2).  Products of a whole number of steps with a fraction in     *)
(* quarters are exact in this unit.                                        *)
(*                                                                         *)
(* Module globals.  bot.py reads the module-level names ENTRY_ZSCORE,      *)
(* ROLLING_WINDOW, PARTIAL_EXIT_PCT, LOT_SIZE_RULES and logger (the block  *)
(* under "# === CONFIG ===", bot.py:11), none of which the listed source   *)
(* sets.  The model takes them as bound: their values are fixed when the   *)
(* module is loaded and do not depend on the arguments an instance is      *)
(* constructed with.  The variable glob holds them, the variable cfg holds *)
(* the instance's own attributes (self.ENTRY_ZSCORE, ...).                 *)
(*                                                                         *)
(* Specifications.  Spec is the driver loop ticking the engine; SpecQuant   *)
(* is adjust_qty_to_lot_size applied to a raw quantity in float            *)
(* arithmetic (the loop itself counts quantities in exact step units);     *)
(* SpecCtl is the Start Bot / Stop Bot buttons and the run_bot threads.    *)
(*                                                                         *)
(* The variable fills is the exchange's side of the current trade: the     *)
(* quantity per leg its accepted entry orders and its accepted exit orders *)
(* add up to.  The program keeps no such ledger.                           *)
(*                                                                         *)
(* Position and journal records keep the fields the engine reads again;    *)
(* prices, spread and timestamps, which no decision reads, are left out.   *)
(***************************************************************************)
EXTENDS Integers, Sequences, FiniteSets, TLC

VARIABLES cfg, glob, driver, running, now, position, trades, last, scen,
          threads, quant, fills

vars == <<cfg, glob, driver, running, now, position, trades, last, scen,
          threads, quant, fills>>

(* ---------------------------- bounds ----------------------------------- *)
MaxTicks == 3

(* ---------------------------- values ----------------------------------- *)
\* a float: NaN, or the number v
NaN == [nan |-> TRUE, v |-> 0]
Num(x) == [nan |-> FALSE, v |-> x]
\* self.position = None
NoPos == [none |-> TRUE]

\* z-scores a tick can produce (tenths), and NaN
ZVals == {-30, -16, -8, -3, 0, 16, 30}
ZInputs == {Num(x) : x \in ZVals} \cup {NaN}

\* raw (dollar-derived) leg quantities of a row, in quarter steps: three steps
\* and a quarter, and three quarters of the minimum
RawQtys == {3, 13}
\* the two legs' raw quantities of one row: leg 1 can be sized, leg 2 may
\* fall under its minimum
RawPairs == {p \in RawQtys \X RawQtys : p[1] = 13}

\* outcome of one place_order call
OK == "ok"
Failures == {"ORDER_REJECTED", "NETWORK_ERROR"}
LegOutcomes == {OK} \cup Failures
NotSent == "not_sent"

\* instance configurations (constructor arguments, bot.py:108-132)
Configs ==
  { [ENTRY_ZSCORE |-> 15, EXIT_ZSCORE |-> 5, STOP_LOSS_ZSCORE_THRESHOLD |-> 30,
     PARTIAL_EXIT_PCT |-> 2, MAX_HOLD_PERIOD_BARS |-> 2, ROLLING_WINDOW |-> 2],
    [ENTRY_ZSCORE |-> 20, EXIT_ZSCORE |-> 5, STOP_LOSS_ZSCORE_THRESHOLD |-> 30,
     PARTIAL_EXIT_PCT |-> 1, MAX_HOLD_PERIOD_BARS |-> 2, ROLLING_WINDOW |-> 3],
    [ENTRY_ZSCORE |-> 15, EXIT_ZSCORE |-> -5, STOP_LOSS_ZSCORE_THRESHOLD |-> 30,
     PARTIAL_EXIT_PCT |-> 2, MAX_HOLD_PERIOD_BARS |-> 3, ROLLING_WINDOW |-> 2],
    [ENTRY_ZSCORE |-> 15, EXIT_ZSCORE |-> 20, STOP_LOSS_ZSCORE_THRESHOLD |-> 30,
     PARTIAL_EXIT_PCT |-> 0, MAX_HOLD_PERIOD_BARS |-> 2, ROLLING_WINDOW |-> 2] }

\* values of the module globals
Globals ==
  { [ENTRY_ZSCORE |-> 15, PARTIAL_EXIT_PCT |-> 2, ROLLING_WINDOW |-> 2] }

Drivers == {"run_bot", "run"}

(* ------------------------ float comparisons ---------------------------- *)
Abs(x) == IF x < 0 THEN -x ELSE x
\* a <= b, a >= b, abs(a) >= b for a float a and a number b: false on NaN
Le(a, b) == ~a.nan /\ a.v <= b
Ge(a, b) == ~a.nan /\ a.v >= b
AbsGe(a, b) == ~a.nan /\ Abs(a.v) >= b

(* ------------------------ lot quantization ----------------------------- *)
\* LOT_SIZE_RULES[symbol]: stepSize and minQty, in quarter steps
LOT_SIZE_RULES == [s1 |-> [stepSize |-> 4, minQty |-> 4],
                   s2 |-> [stepSize |-> 4, minQty |-> 4]]

adjust_qty_to_lot_size(qty, symbol) ==
  LET step == LOT_SIZE_RULES[symbol].stepSize
      min_qty == LOT_SIZE_RULES[symbol].minQty
      qty_adj == (qty \div step) * step
  IN IF qty_adj < min_qty
       THEN (IF qty >= min_qty THEN min_qty ELSE 0)
       ELSE qty_adj

\* round(x, 3) / round(x, 0) in enter_position: to the nearest whole step,
\* ties to the even step
RoundToStep(q) ==
  LET k == q \div 4
      r == q % 4
  IN IF r < 2 THEN 4 * k
     ELSE IF r > 2 THEN 4 * (k + 1)
     ELSE IF k % 2 = 0 THEN 4 * k ELSE 4 * (k + 1)

(* ----------------------------- journal --------------------------------- *)
\* index of the first record of the journal with this trade_id (and, when
\* entered_only, with status ENTERED), 0 if there is none
FirstIndex(ts, trade_id, entered_only) ==
  LET S == {i \in 1..Len(ts) : /\ ts[i].trade_id = trade_id
                               /\ (entered_only => ts[i].status = "ENTERED")}
  IN IF S = {} THEN 0 ELSE CHOOSE i \in S : \A j \in S : i <= j

log_trade_entry(ts, trade_id, side, qty1, qty2) ==
  Append(ts, [trade_id |-> trade_id, status |-> "ENTERED", side |-> side,
              qty1 |-> qty1, qty2 |-> qty2, orders |-> <<>>,
              exit_data |-> "None", pnl_analysis |-> "None"])

\* appends to the first record with this id that is still ENTERED, if any
log_order(ts, trade_id, order_type) ==
  LET i == FirstIndex(ts, trade_id, TRUE)
  IN IF i = 0 THEN ts
     ELSE [ts EXCEPT ![i].orders = Append(@, order_type)]

\* a journal whose log line is formatted, and raises, before the record is
\* written
log_trade_exit_RaiseFirst(ts, trade_id, reason, pnl_analysis) ==
  LET i == FirstIndex(ts, trade_id, FALSE)
  IN IF i = 0 THEN [trades |-> ts, raised |-> FALSE]
     ELSE IF pnl_analysis = "error" THEN [trades |-> ts, raised |-> TRUE]
     ELSE [trades |-> [ts EXCEPT ![i].status = "COMPLETED",
                                 ![i].exit_data = reason,
                                 ![i].pnl_analysis = pnl_analysis],
           raised |-> FALSE]

\* the record is written before the log line formats pnl_analysis['total_pnl'],
\* which raises KeyError on an error result
log_trade_exit(ts, trade_id, reason, pnl_analysis) ==
  LET i == FirstIndex(ts, trade_id, FALSE)
  IN IF i = 0 THEN [trades |-> ts, raised |-> FALSE]
     ELSE [trades |-> [ts EXCEPT ![i].status = "COMPLETED",
                                 ![i].exit_data = reason,
                                 ![i].pnl_analysis = pnl_analysis],
           raised |-> pnl_analysis = "error"]

\* hist: whether the exchange's trade history could be fetched and read
calculate_actual_pnl(ts, trade_id, hist) ==
  IF hist # OK THEN "error"
     ELSE IF FirstIndex(ts, trade_id, FALSE) = 0 THEN "error"
     ELSE "pnl"

(* ------------------------- signal evaluation --------------------------- *)
\* an evaluator that tests the reversion exit before the stop-loss
ExitVerdict_ExitFirst(pos, zscore) ==
  IF pos.side = "long" /\ Le(zscore, cfg.EXIT_ZSCORE)
    THEN [trigger |-> TRUE, reason |-> "EXIT_ZSCORE", partial |-> FALSE]
  ELSE IF pos.side = "short" /\ Ge(zscore, -cfg.EXIT_ZSCORE)
    THEN [trigger |-> TRUE, reason |-> "EXIT_ZSCORE", partial |-> FALSE]
  ELSE IF AbsGe(zscore, cfg.STOP_LOSS_ZSCORE_THRESHOLD)
    THEN [trigger |-> TRUE, reason |-> "STOP_LOSS", partial |-> FALSE]
  ELSE IF pos.holding_bars >= cfg.MAX_HOLD_PERIOD_BARS
    THEN [trigger |-> TRUE, reason |-> "MAX_HOLD_PERIOD", partial |-> FALSE]
  ELSE [trigger |-> FALSE, reason |-> "", partial |-> FALSE]

\* an evaluator that tests the partial exit before the reversion exit
ExitVerdict_PartialFirst(pos, zscore) ==
  IF AbsGe(zscore, cfg.STOP_LOSS_ZSCORE_THRESHOLD)
    THEN [trigger |-> TRUE, reason |-> "STOP_LOSS", partial |-> FALSE]
  ELSE IF ~pos.partial_exited /\ pos.side = "long" /\ Le(zscore, 0)
    THEN [trigger |-> TRUE, reason |-> "PARTIAL_EXIT", partial |-> TRUE]
  ELSE IF ~pos.partial_exited /\ pos.side = "short" /\ Ge(zscore, 0)
    THEN [trigger |-> TRUE, reason |-> "PARTIAL_EXIT", partial |-> TRUE]
  ELSE IF pos.side = "long" /\ Le(zscore, cfg.EXIT_ZSCORE)
    THEN [trigger |-> TRUE, reason |-> "EXIT_ZSCORE", partial |-> FALSE]
  ELSE IF pos.side = "short" /\ Ge(zscore, -cfg.EXIT_ZSCORE)
    THEN [trigger |-> TRUE, reason |-> "EXIT_ZSCORE", partial |-> FALSE]
  ELSE IF pos.holding_bars >= cfg.MAX_HOLD_PERIOD_BARS
    THEN [trigger |-> TRUE, reason |-> "MAX_HOLD_PERIOD", partial |-> FALSE]
  ELSE [trigger |-> FALSE, reason |-> "", partial |-> FALSE]

\* an evaluator that offers the partial exit whatever partial_exited says
ExitVerdict_PartialAgain(pos, zscore) ==
  IF AbsGe(zscore, cfg.STOP_LOSS_ZSCORE_THRESHOLD)
    THEN [trigger |-> TRUE, reason |-> "STOP_LOSS", partial |-> FALSE]
  ELSE IF pos.side = "long" /\ Le(zscore, cfg.EXIT_ZSCORE)
    THEN [trigger |-> TRUE, reason |-> "EXIT_ZSCORE", partial |-> FALSE]
  ELSE IF pos.side = "short" /\ Ge(zscore, -cfg.EXIT_ZSCORE)
    THEN [trigger |-> TRUE, reason |-> "EXIT_ZSCORE", partial |-> FALSE]
  ELSE IF pos.holding_bars >= cfg.MAX_HOLD_PERIOD_BARS
    THEN [trigger |-> TRUE, reason |-> "MAX_HOLD_PERIOD", partial |-> FALSE]
  ELSE IF pos.side = "long" /\ Le(zscore, 0)
    THEN [trigger |-> TRUE, reason |-> "PARTIAL_EXIT", partial |-> TRUE]
  ELSE IF pos.side = "short" /\ Ge(zscore, 0)
    THEN [trigger |-> TRUE, reason |-> "PARTIAL_EXIT", partial |-> TRUE]
  ELSE [trigger |-> FALSE, reason |-> "", partial |-> FALSE]

\* the verdict of check_exit_conditions on a position whose holding_bars
\* has already been incremented for this tick
ExitVerdict(pos, zscore) ==
  IF AbsGe(zscore, cfg.STOP_LOSS_ZSCORE_THRESHOLD)
    THEN [trigger |-> TRUE, reason |-> "STOP_LOSS", partial |-> FALSE]
  ELSE IF pos.side = "long" /\ Le(zscore, cfg.EXIT_ZSCORE)
    THEN [trigger |-> TRUE, reason |-> "EXIT_ZSCORE", partial |-> FALSE]
  ELSE IF pos.side = "short" /\ Ge(zscore, -cfg.EXIT_ZSCORE)
    THEN [trigger |-> TRUE, reason |-> "EXIT_ZSCORE", partial |-> FALSE]
  ELSE IF pos.holding_bars >= cfg.MAX_HOLD_PERIOD_BARS
    THEN [trigger |-> TRUE, reason |-> "MAX_HOLD_PERIOD", partial |-> FALSE]
  ELSE IF ~pos.partial_exited /\ pos.side = "long" /\ Le(zscore, 0)
    THEN [trigger |-> TRUE, reason |-> "PARTIAL_EXIT", partial |-> TRUE]
  ELSE IF ~pos.partial_exited /\ pos.side = "short" /\ Ge(zscore, 0)
    THEN [trigger |-> TRUE, reason |-> "PARTIAL_EXIT", partial |-> TRUE]
  ELSE [trigger |-> FALSE, reason |-> "", partial |-> FALSE]

\* an evaluator that counts the bar after it has reached its verdict
check_exit_conditions_IncrementAfter(pos, zscore) ==
  [position |-> [pos EXCEPT !.holding_bars = @ + 1],
   verdict |-> ExitVerdict(pos, zscore)]

\* check_exit_conditions: increments holding_bars, then evaluates
check_exit_conditions(pos, zscore) ==
  LET p == [pos EXCEPT !.holding_bars = @ + 1]
  IN [position |-> p, verdict |-> ExitVerdict(p, zscore)]

\* reads the module global ENTRY_ZSCORE, not self.ENTRY_ZSCORE
check_entry_conditions(zscore) ==
  IF Le(zscore, -glob.ENTRY_ZSCORE) THEN [trigger |-> TRUE, side |-> "long"]
  ELSE IF Ge(zscore, glob.ENTRY_ZSCORE) THEN [trigger |-> TRUE, side |-> "short"]
  ELSE [trigger |-> FALSE, side |-> ""]

(* ------------------------- order coordination -------------------------- *)
\* a coordinator that submits leg 2 first and leg 1 only after leg 2 filled
PlaceOrders_LegBFirst(a, b) ==
  IF b \in Failures THEN <<NotSent, b>> ELSE <<a, b>>

\* the two place_order calls of enter_position and exit_position, in program
\* order: leg 1 (symbol1), then, if that call returned, leg 2 (symbol2).
\* Gives what became of each leg's order.
PlaceOrders(a, b) ==
  IF a # OK THEN <<a, NotSent>> ELSE <<a, b>>

\* a, b: what place_order does for leg 1 and for leg 2 if it is called.
\* The result carries the state the call leaves, the leg calls made
\* (NotSent for a leg never submitted), the log lines the call wrote and
\* its return value.
\* an entry that records the position as soon as leg 1 is filled
enter_position_AfterLeg1(pos, ts, side, trade_id, qty1_row, qty2_row, a, b) ==
  LET qty1 == RoundToStep(qty1_row)
      qty2 == RoundToStep(qty2_row)
  IN IF a # OK
       THEN [position |-> pos, trades |-> ts, legs |-> <<a, NotSent>>,
             qtys |-> <<qty1, qty2>>, ret |-> "None", log |-> <<>>]
     ELSE [position |-> [trade_id |-> trade_id, side |-> side,
                         qty1 |-> qty1, qty2 |-> qty2,
                         partial_exited |-> FALSE, holding_bars |-> 0],
           trades |-> log_trade_entry(ts, trade_id, side, qty1, qty2),
           legs |-> <<a, b>>, qtys |-> <<qty1, qty2>>, ret |-> "None", log |-> <<>>]

enter_position(pos, ts, side, trade_id, qty1_row, qty2_row, a, b) ==
  LET qty1 == RoundToStep(qty1_row)
      qty2 == RoundToStep(qty2_row)
      t1 == IF side = "long" THEN <<"ENTRY", "LEG1_LONG">> ELSE <<"ENTRY", "LEG1_SHORT">>
      t2 == IF side = "long" THEN <<"ENTRY", "LEG2_SHORT">> ELSE <<"ENTRY", "LEG2_LONG">>
      head == << <<"Attempting to enter", side>> >>
  IN IF a # OK
       THEN [position |-> pos, trades |-> ts, legs |-> PlaceOrders(a, b),
             qtys |-> <<qty1, qty2>>, ret |-> "None",
             log |-> head \o << <<"Order placement failed", a>>,
                                <<"Failed to enter position", a>> >>]
     ELSE IF b # OK
       THEN [position |-> pos, trades |-> log_order(ts, trade_id, t1),
             legs |-> PlaceOrders(a, b), qtys |-> <<qty1, qty2>>, ret |-> "None",
             log |-> head \o << <<"Order placement failed", b>>,
                                <<"Failed to enter position", b>> >>]
     ELSE [position |-> [trade_id |-> trade_id, side |-> side,
                         qty1 |-> qty1, qty2 |-> qty2,
                         partial_exited |-> FALSE, holding_bars |-> 0],
           trades |-> log_trade_entry(
                        log_order(log_order(ts, trade_id, t1), trade_id, t2),
                        trade_id, side, qty1, qty2),
           legs |-> PlaceOrders(a, b), qtys |-> <<qty1, qty2>>, ret |-> "None",
           log |-> head \o << <<"Trade entry logged", "">>,
                              <<"Position entered successfully", "">> >>]

\* the position as the partial branch rewrites it before any order is sent:
\* the stored quantities are scaled with the module global PARTIAL_EXIT_PCT
PartialMutation(pos) ==
  [pos EXCEPT !.qty1 = (@ * (4 - glob.PARTIAL_EXIT_PCT)) \div 4,
              !.qty2 = (@ * (4 - glob.PARTIAL_EXIT_PCT)) \div 4,
              !.partial_exited = TRUE]

exit_position(pos, ts, reason, partial, a, b, hist) ==
  LET trade_id == pos.trade_id
      p1 == IF partial THEN PartialMutation(pos) ELSE pos
      raw1 == IF partial THEN (pos.qty1 * cfg.PARTIAL_EXIT_PCT) \div 4 ELSE pos.qty1
      raw2 == IF partial THEN (pos.qty2 * cfg.PARTIAL_EXIT_PCT) \div 4 ELSE pos.qty2
      exit_qty1 == adjust_qty_to_lot_size(raw1, "s1")
      exit_qty2 == adjust_qty_to_lot_size(raw2, "s2")
      pre == IF partial THEN "PARTIAL_EXIT" ELSE "EXIT"
      t1 == IF pos.side = "long" THEN <<pre, "LEG1_SELL">> ELSE <<pre, "LEG1_BUY">>
      t2 == IF pos.side = "long" THEN <<pre, "LEG2_BUY">> ELSE <<pre, "LEG2_SELL">>
      head == << <<"Exiting position", reason>> >>
      ts1 == log_order(ts, trade_id, t1)
      ts2 == log_order(ts1, trade_id, t2)
      pnl == calculate_actual_pnl(ts2, trade_id, hist)
      ex == log_trade_exit(ts2, trade_id, reason, pnl)
  IN IF a # OK
       THEN [position |-> p1, trades |-> ts, legs |-> PlaceOrders(a, b),
             qtys |-> <<exit_qty1, exit_qty2>>, ret |-> "None",
             log |-> head \o << <<"Order placement failed", a>>,
                                <<"Failed to exit position", a>> >>]
     ELSE IF b # OK
       THEN [position |-> p1, trades |-> ts1, legs |-> PlaceOrders(a, b),
             qtys |-> <<exit_qty1, exit_qty2>>, ret |-> "None",
             log |-> head \o << <<"Order placement failed", b>>,
                                <<"Failed to exit position", b>> >>]
     ELSE IF partial
       THEN [position |-> p1, trades |-> ts2, legs |-> PlaceOrders(a, b),
             qtys |-> <<exit_qty1, exit_qty2>>, ret |-> "None",
             log |-> head \o << <<"Partial exit completed", "">> >>]
     ELSE IF ex.raised
       THEN [position |-> p1, trades |-> ex.trades, legs |-> PlaceOrders(a, b),
             qtys |-> <<exit_qty1, exit_qty2>>, ret |-> "None",
             log |-> head \o << <<"Failed to exit position", "total_pnl">> >>]
     ELSE [position |-> NoPos, trades |-> ex.trades, legs |-> PlaceOrders(a, b),
           qtys |-> <<exit_qty1, exit_qty2>>, ret |-> "None",
           log |-> head \o << <<"Trade exit logged", "">>,
                              <<"Position closed", "">> >>]

(* ----------------------------- market data ----------------------------- *)
\* The last row update_market_data returns.  rows: rows left after dropna;
\* stat: the z-score the rolling statistics give over a full window (NaN
\* when the rolling std is zero); raw1, raw2: the row's dollar-derived
\* quantities.  rolling(ROLLING_WINDOW) reads the module global and yields
\* NaN while fewer than that many rows exist.
update_market_data(rows, stat, raw1, raw2) ==
  [rows |-> rows,
   qty1 |-> adjust_qty_to_lot_size(raw1, "s1"),
   qty2 |-> adjust_qty_to_lot_size(raw2, "s2"),
   spread_zscore |-> IF rows >= glob.ROLLING_WINDOW THEN stat ELSE NaN]

\* row counts a fetch of limit self.ROLLING_WINDOW + 10 klines can leave: the
\* full answer, and an answer one row short of the configured window
RowCounts == {cfg.ROLLING_WINDOW - 1, cfg.ROLLING_WINDOW + 10}

\* the inputs of one iteration whose fetch succeeded; the statistic is only
\* read from a full window
RowInputs ==
  {update_market_data(rows, stat, raw[1], raw[2]) :
     rows \in RowCounts, stat \in ZInputs, raw \in RawPairs}

\* the rows as an iteration with an open position reads them: it reads the
\* z-score and never the row's quantities, so one quantity pair stands for all
OpenRowInputs ==
  {update_market_data(rows, stat, 13, 13) : rows \in RowCounts, stat \in ZInputs}

\* outcomes of the two place_order calls: leg 2 is only called after leg 1
\* succeeded
LegPairs == {<<a, b>> \in LegOutcomes \X (LegOutcomes \cup {NotSent}) :
               (a = OK) <=> (b # NotSent)}

(* ------------------------------- state --------------------------------- *)
NoLegs == <<NotSent, NotSent>>
\* no call of adjust_qty_to_lot_size is being followed
\* nothing filled at the exchange
NoFills == [entered |-> <<0, 0>>, exited |-> <<0, 0>>]
NoQuant == [symbol |-> "", qty |-> 0, first |-> 0, second |-> 0, done |-> FALSE]

Init ==
  /\ cfg \in Configs
  /\ glob \in Globals
  /\ driver \in Drivers
  /\ running = TRUE
  /\ now = 0
  /\ position = NoPos
  /\ trades = <<>>
  /\ last = [op |-> "init", rows |-> 0, z |-> NaN, pre |-> NoPos, journal |-> <<>>,
             reason |-> "", partial |-> FALSE, legs |-> NoLegs, qtys |-> <<0, 0>>,
             hist |-> "none", log |-> <<>>]
  /\ scen = [on |-> TRUE, ops |-> <<>>]
  /\ threads = <<>>
  /\ quant = NoQuant
  /\ fills = NoFills

\* The scenario of z-scores 1.6 below, 0.8 below and 0.3 below the mean.
ScenarioZ == <<-16, -8, -3>>

\* scen follows the run from its start while the z-scores fed to the engine
\* are ScenarioZ in order and every order and reconciliation succeeds: it
\* keeps what each of these ticks did, and is switched off for good by
\* anything else.
ScenOff == [on |-> FALSE, ops |-> <<>>]
ScenNext(op, z, reason, partial, clean) ==
  IF /\ scen.on
     /\ Len(scen.ops) < Len(ScenarioZ)
     /\ z = Num(ScenarioZ[Len(scen.ops) + 1])
     /\ clean
    THEN [on |-> TRUE,
          ops |-> Append(scen.ops, [op |-> op, reason |-> reason, partial |-> partial])]
    ELSE ScenOff

\* the quantity of each leg's order that the exchange accepted
Filled(legs, qtys) ==
  <<IF legs[1] = OK THEN qtys[1] ELSE 0, IF legs[2] = OK THEN qtys[2] ELSE 0>>

\* what one iteration leaves behind for the properties.  last describes the
\* whole iteration: the row it read, the position (pre) and the journal the
\* coordinator was called on, the verdict (reason, partial), the outcome of
\* each leg's order, the quantities computed for the orders, the outcome of
\* reconciliation and the log lines the coordinator wrote
Record(op, row, pre, reason, partial, legs, qtys, hist, log) ==
  /\ last' = [op |-> op, rows |-> row.rows, z |-> row.spread_zscore, pre |-> pre,
              journal |-> trades, reason |-> reason, partial |-> partial,
              legs |-> legs, qtys |-> qtys, hist |-> hist, log |-> log]
  /\ scen' = ScenNext(op, row.spread_zscore, reason, partial,
                      /\ legs[1] \in {OK, NotSent}
                      /\ legs[2] \in {OK, NotSent}
                      /\ hist # "error")
  /\ fills' = IF op = "enter"
                THEN [entered |-> Filled(legs, qtys), exited |-> <<0, 0>>]
              ELSE IF op = "exit"
                THEN [fills EXCEPT !.exited = <<@[1] + Filled(legs, qtys)[1],
                                                @[2] + Filled(legs, qtys)[2]>>]
              ELSE fills

Alive == running /\ now < MaxTicks

\* a loop that evaluates entry whether or not a position is open
InPosition_Ignored(pos) == FALSE

\* the loop's test "if bot.position:"
InPosition(pos) == pos # NoPos

\* update_market_data raises (kline fetch failed, or no row is left): the
\* exception reaches the loop.  run_bot clears bot_running and leaves the
\* loop; run logs, sleeps and goes on.
IterateFetchFailed ==
  /\ Alive
  /\ now' = now + 1
  /\ running' = (driver = "run")
  /\ last' = [op |-> "fetch_failed", rows |-> 0, z |-> NaN, pre |-> position,
              journal |-> trades, reason |-> "", partial |-> FALSE, legs |-> NoLegs,
              qtys |-> <<0, 0>>, hist |-> "none", log |-> <<>>]
  /\ scen' = ScenOff
  /\ UNCHANGED <<cfg, glob, driver, position, trades, threads, quant, fills>>

\* one iteration with no position: check_entry_conditions, then
\* enter_position when it triggers
IterateFlat ==
  /\ Alive
  /\ ~InPosition(position)
  /\ \E row \in RowInputs :
       LET v == check_entry_conditions(row.spread_zscore)
       IN IF v.trigger
            THEN \E legs \in LegPairs :
                   LET r == enter_position(position, trades, v.side, <<v.side, now + 1>>,
                                           row.qty1, row.qty2, legs[1], legs[2])
                   IN /\ position' = r.position
                      /\ trades' = r.trades
                      /\ Record("enter", row, position, v.side, FALSE, r.legs, r.qtys,
                                "none", r.log)
            ELSE /\ UNCHANGED <<position, trades>>
                 /\ Record("hold", row, position, "", FALSE, NoLegs, <<0, 0>>, "none", <<>>)
  /\ now' = now + 1
  /\ UNCHANGED <<cfg, glob, driver, running, threads, quant>>

\* one iteration with a position: check_exit_conditions (which counts the
\* bar), then exit_position when it triggers
IterateOpen ==
  /\ Alive
  /\ InPosition(position)
  /\ \E row \in OpenRowInputs :
       LET c == check_exit_conditions(position, row.spread_zscore)
           v == c.verdict
       IN IF v.trigger
            THEN \E legs \in LegPairs :
                 \E hist \in IF legs = <<OK, OK>> /\ ~v.partial THEN {OK, "error"}
                                                                ELSE {OK} :
                   LET r == exit_position(c.position, trades, v.reason, v.partial,
                                          legs[1], legs[2], hist)
                       reached == legs = <<OK, OK>> /\ ~v.partial
                   IN /\ position' = r.position
                      /\ trades' = r.trades
                      /\ Record("exit", row, c.position, v.reason, v.partial, r.legs, r.qtys,
                                IF ~reached THEN "none"
                                ELSE IF hist = OK THEN "pnl" ELSE "error",
                                r.log)
            ELSE /\ position' = c.position
                 /\ UNCHANGED trades
                 /\ Record("hold", row, c.position, "", FALSE, NoLegs, <<0, 0>>, "none",
                           <<>>)
  /\ now' = now + 1
  /\ UNCHANGED <<cfg, glob, driver, running, threads, quant>>

Next == IterateFetchFailed \/ IterateFlat \/ IterateOpen

Spec == Init /\ [][Next]_vars

(* ------------------- the quantizer in float arithmetic ----------------- *)
\* adjust_qty_to_lot_size works on Python floats.  A float here is a
\* non-negative integer count of 2^-FracBits with at most FloatBits
\* significant bits; every operation rounds its exact result to the nearest
\* float, ties to the even significand, as IEEE 754 arithmetic does (at 53
\* bits in the program).
FloatBits == 6
FracBits == 10
\* the largest raw quantity fed to the quantizer, in units of 2^-FracBits
MaxRaw == 2304

RECURSIVE Pow2(_)
Pow2(n) == IF n = 0 THEN 1 ELSE 2 * Pow2(n - 1)

One == Pow2(FracBits)

\* the spacing of the floats around n/d: the smallest power of two u from
\* u0 on with n/d < 2^FloatBits * u
RECURSIVE UlpFrom(_, _, _)
UlpFrom(n, d, u0) ==
  IF n < Pow2(FloatBits) * u0 * d THEN u0 ELSE UlpFrom(n, d, 2 * u0)

\* n/d rounded to the nearest integer, ties to even
RoundHalfEven(n, d) ==
  LET m == n \div d
      r == n % d
  IN IF 2 * r > d \/ (2 * r = d /\ m % 2 = 1) THEN m + 1 ELSE m

\* the float nearest to n/d (n/d counted in units of 2^-FracBits)
fl(n, d) ==
  LET u == UlpFrom(n, d, 1)
  IN RoundHalfEven(n, d * u) * u

IsFloat(v) == fl(v, 1) = v

\* the float operations of "math.floor(qty / step) * step"
FloatDiv(a, b) == fl(a * One, b)
FloatFloor(a) == a \div One
IntTimesFloat(k, b) == fl(fl(k * One, 1) * b, One)

\* lot rules with a decimal step: one tenth is not a binary fraction, the
\* rule holds the float nearest to it
LOT_SIZE_RULES_float ==
  [s1 |-> [stepSize |-> fl(One, 10), minQty |-> fl(One, 10)]]

\* adjust_qty_to_lot_size as the floats compute it
adjust_qty_float(qty, symbol) ==
  IF symbol \notin DOMAIN LOT_SIZE_RULES_float THEN qty
  ELSE LET step == LOT_SIZE_RULES_float[symbol].stepSize
           min_qty == LOT_SIZE_RULES_float[symbol].minQty
           qty_adj == IntTimesFloat(FloatFloor(FloatDiv(qty, step)), step)
       IN IF qty_adj < min_qty
            THEN (IF qty >= min_qty THEN min_qty ELSE 0)
            ELSE qty_adj

\* the raw quantities and the instruments (one with rules, one without)
QuantInputs == {v \in 0..MaxRaw : IsFloat(v)}
QuantSymbols == {"s1", "s3"}

InitQuant ==
  /\ cfg \in Configs
  /\ glob \in Globals
  /\ driver = "run_bot"
  /\ running = FALSE
  /\ now = 0
  /\ position = NoPos
  /\ trades = <<>>
  /\ last = [op |-> "init", rows |-> 0, z |-> NaN, pre |-> NoPos, journal |-> <<>>,
             reason |-> "", partial |-> FALSE, legs |-> NoLegs, qtys |-> <<0, 0>>,
             hist |-> "none", log |-> <<>>]
  /\ scen = ScenOff
  /\ threads = <<>>
  /\ fills = NoFills
  /\ \E symbol \in QuantSymbols, qty \in QuantInputs :
       quant = [NoQuant EXCEPT !.symbol = symbol, !.qty = qty]

\* one call of the quantizer, and a second call on what the first returned
Quantize ==
  /\ ~quant.done
  /\ quant' = [quant EXCEPT
                 !.first = adjust_qty_float(quant.qty, quant.symbol),
                 !.second = adjust_qty_float(adjust_qty_float(quant.qty, quant.symbol),
                                             quant.symbol),
                 !.done = TRUE]
  /\ UNCHANGED <<cfg, glob, driver, running, now, position, trades, last, scen,
                 threads, fills>>

SpecQuant == InitQuant /\ [][Quantize]_vars

(* ------------------------- the control surface ------------------------- *)
\* The Start Bot and Stop Bot buttons of main.py and the run_bot threads they
\* leave behind.  threads[t] is where thread t stands: at the loop test
\* ("head"), inside the try block of an iteration ("iterating"), in
\* time.sleep(60) ("sleeping"), or returned ("exited").  All threads read
\* the one flag st.session_state.bot_running; each has a bot of its own,
\* which is not followed here.
MaxThreads == 2

InitCtl ==
  /\ cfg \in Configs
  /\ glob \in Globals
  /\ driver = "run_bot"
  /\ running = FALSE
  /\ now = 0
  /\ position = NoPos
  /\ trades = <<>>
  /\ last = [op |-> "init", rows |-> 0, z |-> NaN, pre |-> NoPos, journal |-> <<>>,
             reason |-> "", partial |-> FALSE, legs |-> NoLegs, qtys |-> <<0, 0>>,
             hist |-> "none", log |-> <<>>]
  /\ scen = ScenOff
  /\ threads = <<>>
  /\ quant = NoQuant
  /\ fills = NoFills

\* what the control surface and the loop's bookkeeping leave alone
CtlFrame ==
  UNCHANGED <<cfg, glob, driver, position, trades, last, scen, quant, fills>>

\* Start Bot (enabled while bot_running is false): sets the flag and starts
\* a new thread
StartBot ==
  /\ ~running
  /\ Len(threads) < MaxThreads
  /\ running' = TRUE
  /\ threads' = Append(threads, "head")
  /\ UNCHANGED now
  /\ CtlFrame

\* Stop Bot (enabled while bot_running is true): clears the flag;
\* join(timeout=2) returns whether or not the thread has ended
StopBot ==
  /\ running
  /\ running' = FALSE
  /\ UNCHANGED <<threads, now>>
  /\ CtlFrame

\* "while st.session_state.bot_running:"
LoopTest(t) ==
  /\ threads[t] = "head"
  /\ IF running
       THEN /\ now < MaxTicks
            /\ now' = now + 1
            /\ threads' = [threads EXCEPT ![t] = "iterating"]
       ELSE /\ threads' = [threads EXCEPT ![t] = "exited"]
            /\ UNCHANGED now
  /\ CtlFrame
  /\ UNCHANGED running
  /\ CtlFrame

\* the try block ran to its end: time.sleep(60)
IterationDone(t) ==
  /\ threads[t] = "iterating"
  /\ threads' = [threads EXCEPT ![t] = "sleeping"]
  /\ UNCHANGED <<running, now>>
  /\ CtlFrame

\* the try block raised: the handler clears the flag and breaks
IterationRaises(t) ==
  /\ threads[t] = "iterating"
  /\ running' = FALSE
  /\ threads' = [threads EXCEPT ![t] = "exited"]
  /\ UNCHANGED now
  /\ CtlFrame

\* time.sleep(60) returns
Wake(t) ==
  /\ threads[t] = "sleeping"
  /\ threads' = [threads EXCEPT ![t] = "head"]
  /\ UNCHANGED <<running, now>>
  /\ CtlFrame

NextCtl ==
  \/ StartBot
  \/ StopBot
  \/ \E t \in DOMAIN threads : LoopTest(t)
  \/ \E t \in DOMAIN threads : IterationDone(t)
  \/ \E t \in DOMAIN threads : IterationRaises(t)
  \/ \E t \in DOMAIN threads : Wake(t)

SpecCtl == InitCtl /\ [][NextCtl]_vars

(* ============================ properties =============================== *)
Entered == {i \in 1..Len(trades) : trades[i].status = "ENTERED"}
Hazard == last.legs[1] = OK /\ last.legs[2] \in Failures
NoLegFilled == last.legs[1] \in Failures

\* C1: at most one position exists.  enter_position is invoked, and an entry
\* order sent, only on a tick that found no position; the journal never
\* holds two trades in flight, and a trade in flight is the open position.
C1_SinglePosition ==
  /\ last.op = "enter" => last.pre = NoPos
  /\ Cardinality(Entered) <= 1
  /\ \A i \in Entered : position # NoPos /\ position.trade_id = trades[i].trade_id

\* a tick on which the entry condition held while a position was open, after
\* an earlier entry attempt had failed
C1_Witness ==
  /\ last.pre # NoPos
  /\ check_entry_conditions(last.z).trigger
  /\ last.op = "hold"
  /\ position.trade_id[2] > 1

\* C2: after an entry whose leg A order succeeded and whose leg B order
\* failed the position is none and the journal has no new trade; a position
\* exists after enter_position only if both leg orders succeeded.
C2_EntryNeedsBothLegs ==
  last.op = "enter" =>
    /\ Hazard => position = NoPos /\ trades = last.journal
    /\ position # NoPos => last.legs = <<OK, OK>>

C2_Witness == last.op = "enter" /\ Hazard /\ position = NoPos

\* C3: an exit_position call (full or partial) in which a leg order failed
\* leaves the position exactly as it was when the call began.
C3_FailedExitLeavesPosition ==
  (last.op = "exit" /\ (Hazard \/ NoLegFilled)) => position = last.pre

\* what a coordinator call gives its caller to tell outcomes apart: its
\* return value, the log lines it wrote and the state it left
Reported(r) ==
  [ret |-> r.ret, log |-> r.log, position |-> r.position, trades |-> r.trades]

\* C4: when leg A filled and leg B failed, what enter_position (and
\* exit_position) reports differs from what the same call reports when leg A
\* fails and no leg is filled.
C4_HazardDistinguishable ==
  /\ (last.op = "enter" /\ Hazard) =>
       \A e \in Failures :
         Reported(enter_position(last.pre, last.journal, last.reason,
                                 <<last.reason, now>>, last.qtys[1], last.qtys[2],
                                 OK, last.legs[2]))
           # Reported(enter_position(last.pre, last.journal, last.reason,
                                     <<last.reason, now>>, last.qtys[1], last.qtys[2],
                                     e, NotSent))
  /\ (last.op = "exit" /\ Hazard) =>
       \A e \in Failures :
         Reported(exit_position(last.pre, last.journal, last.reason, last.partial,
                                OK, last.legs[2], OK))
           # Reported(exit_position(last.pre, last.journal, last.reason, last.partial,
                                    e, NotSent, OK))

\* C5: after a full close whose two leg orders succeeded the position is
\* none, whatever reconciliation returned.
C5_FullCloseClears ==
  (last.op = "exit" /\ ~last.partial /\ last.legs = <<OK, OK>>) => position = NoPos

\* C6: on a tick with an open position and |zscore| >= stop_z the verdict is
\* a full close with reason STOP_LOSS.
C6_StopLossPrecedence ==
  (last.pre # NoPos /\ last.op \in {"exit", "hold"}
     /\ AbsGe(last.z, cfg.STOP_LOSS_ZSCORE_THRESHOLD))
  => (last.op = "exit" /\ last.reason = "STOP_LOSS" /\ ~last.partial)

\* a stop-loss close of a long position on a tick where the reversion-exit,
\* the max-hold and the partial-exit conditions held as well
C6_Witness ==
  /\ last.op = "exit" /\ last.reason = "STOP_LOSS"
  /\ last.pre.side = "long"
  /\ Le(last.z, cfg.EXIT_ZSCORE)
  /\ last.pre.holding_bars >= cfg.MAX_HOLD_PERIOD_BARS
  /\ ~last.pre.partial_exited /\ Le(last.z, 0)

\* C7: when the stop-loss does not fire, a long position gets EXIT_ZSCORE
\* exactly when zscore >= -exit_z and a short one exactly when
\* zscore <= +exit_z (stated for the configurations with exit_z > 0).
C7_ReversionExit ==
  (last.pre # NoPos /\ last.op \in {"exit", "hold"} /\ ~last.z.nan
     /\ cfg.EXIT_ZSCORE > 0
     /\ ~AbsGe(last.z, cfg.STOP_LOSS_ZSCORE_THRESHOLD))
  => ((last.op = "exit" /\ last.reason = "EXIT_ZSCORE" /\ ~last.partial)
        <=> \/ last.pre.side = "long" /\ Ge(last.z, -cfg.EXIT_ZSCORE)
            \/ last.pre.side = "short" /\ Le(last.z, cfg.EXIT_ZSCORE))

\* the configuration of the scenario: entry_z 1.5, exit_z 0.5, stop_z 3.0
ScenarioConfig ==
  /\ cfg.ENTRY_ZSCORE = 15 /\ cfg.EXIT_ZSCORE = 5
  /\ cfg.STOP_LOSS_ZSCORE_THRESHOLD = 30
  /\ glob.ENTRY_ZSCORE = 15

\* C8: under the scenario configuration, with every order succeeding, the
\* z-scores -1.6, -0.8, -0.3 give a long entry, then a hold, then a full
\* close with reason EXIT_ZSCORE.
C8_Scenario ==
  (ScenarioConfig /\ scen.on /\ Len(scen.ops) = Len(ScenarioZ))
  => scen.ops = << [op |-> "enter", reason |-> "long", partial |-> FALSE],
                   [op |-> "hold", reason |-> "", partial |-> FALSE],
                   [op |-> "exit", reason |-> "EXIT_ZSCORE", partial |-> FALSE] >>

\* C9: on a tick with no position and a defined zscore the verdict is enter
\* long iff zscore <= -entry_z, enter short iff zscore >= +entry_z and hold
\* otherwise, entry_z being the instance's configured threshold.
C9_EntryRule ==
  (last.pre = NoPos /\ last.op \in {"enter", "hold"} /\ ~last.z.nan)
  => /\ (last.op = "enter" /\ last.reason = "long") <=> Le(last.z, -cfg.ENTRY_ZSCORE)
     /\ (last.op = "enter" /\ last.reason = "short") <=> Ge(last.z, cfg.ENTRY_ZSCORE)

\* C10: on a tick whose history has fewer rows than the instance's rolling
\* window the zscore is undefined and no entry is made.
C10_InsufficientHistory ==
  (last.op \in {"enter", "hold", "exit"} /\ last.rows < cfg.ROLLING_WINDOW)
  => (last.z.nan /\ last.op # "enter")

\* an iteration that got its row and evaluated an open position
EvaluatedOpen == last.pre # NoPos /\ last.op \in {"exit", "hold"}

\* C11: on a tick with an open position and an undefined zscore the verdict
\* is hold, whatever the number of bars held.
C11_UndefinedZHolds ==
  (EvaluatedOpen /\ last.z.nan) => last.op = "hold"

\* C12: a partial exit is decided only for a position whose partial_exited
\* flag is unset, it sets the flag, and the flag stays set for as long as
\* that position exists.
C12_PartialExitOnce ==
  /\ (last.op = "exit" /\ last.partial) =>
        /\ ~last.pre.partial_exited
        /\ position # NoPos /\ position.partial_exited
  /\ (EvaluatedOpen /\ last.pre.partial_exited /\ position # NoPos) =>
        /\ position.trade_id = last.pre.trade_id
        /\ position.partial_exited

\* a tick that held a long position which had already been partially
\* exited, on a zscore at which the partial exit condition held again
C12_Witness ==
  /\ last.op = "hold" /\ last.pre # NoPos
  /\ last.pre.partial_exited
  /\ last.pre.side = "long" /\ Le(last.z, 0)
  /\ ~Le(last.z, cfg.EXIT_ZSCORE)

\* C13: a position starts with holding_bars = 0; every iteration that
\* evaluates an open position adds exactly one bar, the verdict is reached
\* on the incremented count, and the count is carried by the position it
\* leaves open, after a partial or a failed exit as well.
C13_BarsHeldCounts ==
  /\ [](/\ (last.op = "enter" /\ position # NoPos) => position.holding_bars = 0
        /\ (EvaluatedOpen /\ last.op = "hold") =>
              last.pre.holding_bars < cfg.MAX_HOLD_PERIOD_BARS)
  /\ [][(position # NoPos /\ last'.op \in {"exit", "hold"}) =>
          /\ last'.pre.holding_bars = position.holding_bars + 1
          /\ position' # NoPos =>
               /\ position'.trade_id = position.trade_id
               /\ position'.holding_bars = position.holding_bars + 1]_vars

\* a second bar counted on a position whose close had its leg 1 order
\* rejected on that tick
C13_Witness ==
  /\ last.op = "exit" /\ NoLegFilled
  /\ position # NoPos /\ position.holding_bars = 2

\* C16: on a tick with no position on which the entry condition holds and
\* the quantity computed for either leg is zero, no order is sent and the
\* position stays none.
C16_SizingInfeasible ==
  (last.pre = NoPos /\ last.op \in {"enter", "hold"}
     /\ check_entry_conditions(last.z).trigger
     /\ (last.qtys[1] = 0 \/ last.qtys[2] = 0))
  => (last.legs = NoLegs /\ position = NoPos)

\* the configuration validation of the specification: exit_z < entry_z <
\* stop_z, rolling window >= 2, partial exit fraction in (0, 1]
Valid(c) ==
  /\ c.EXIT_ZSCORE < c.ENTRY_ZSCORE
  /\ c.ENTRY_ZSCORE < c.STOP_LOSS_ZSCORE_THRESHOLD
  /\ c.ROLLING_WINDOW >= 2
  /\ c.PARTIAL_EXIT_PCT > 0 /\ c.PARTIAL_EXIT_PCT <= 4

\* C17: with a configuration that fails validation the driver performs no
\* tick and sends no order.
C17_RefusesInvalidConfig ==
  ~Valid(cfg) => (now = 0 /\ last.op = "init" /\ trades = <<>> /\ position = NoPos)

\* C18: an iteration that failed (fetch failure, leg failure, hazard or
\* reconciliation failure) leaves the driver running.
C18_ErrorsDoNotTerminate ==
  (\/ last.op = "fetch_failed"
   \/ last.legs[1] \in Failures
   \/ last.legs[2] \in Failures
   \/ last.hist = "error")
  => running

\* C20: after a full close whose reconciliation failed, calculate_actual_pnl
\* has returned its error result and the journal record of the trade is
\* COMPLETED and carries that result.
C20_ReconcileFailureCompletes ==
  (last.op = "exit" /\ last.hist = "error") =>
    /\ calculate_actual_pnl(last.journal, last.pre.trade_id, "error") = "error"
    /\ \E i \in 1..Len(trades) :
         /\ trades[i].trade_id = last.pre.trade_id
         /\ trades[i].status = "COMPLETED"
         /\ trades[i].pnl_analysis = "error"
    /\ \A i \in 1..Len(trades) :
         trades[i].trade_id = last.pre.trade_id => trades[i].status = "COMPLETED"

\* a full close whose two legs filled and whose trade-history fetch failed
C20_Witness ==
  /\ last.op = "exit" /\ ~last.partial /\ last.legs = <<OK, OK>>
  /\ last.hist = "error"
  /\ \E i \in 1..Len(last.journal) :
       /\ last.journal[i].trade_id = last.pre.trade_id
       /\ last.journal[i].status = "ENTERED"

\* C14: quantizing a quantized value gives it back, for every raw quantity
\* and for an instrument with rules and one without.
C14_QuantizeIdempotent ==
  quant.done => quant.second = quant.first

\* C15: for an instrument with step S and minimum M the result is
\* floor(raw / S) * S (the float nearest to that exact value) when that is
\* >= M, otherwise M if raw >= M and 0 if raw < M; it is 0 or >= M, and it
\* never exceeds raw.
C15_QuantizeValue ==
  (quant.done /\ quant.symbol \in DOMAIN LOT_SIZE_RULES_float) =>
    LET S == LOT_SIZE_RULES_float[quant.symbol].stepSize
        M == LOT_SIZE_RULES_float[quant.symbol].minQty
        f == (quant.qty \div S) * S
    IN /\ quant.first = IF f >= M THEN fl(f, 1) ELSE IF quant.qty >= M THEN M ELSE 0
       /\ quant.first = 0 \/ quant.first >= M
       /\ quant.first <= quant.qty

\* C19: at any time at most one driver thread is alive and at most one
\* iteration is in flight, whatever the order of starts, stops and ticks.
C19_SingleDriver ==
  /\ Cardinality({t \in DOMAIN threads : threads[t] # "exited"}) <= 1
  /\ Cardinality({t \in DOMAIN threads : threads[t] = "iterating"}) <= 1

\* a quantity the quantizer leaves as it is: a whole number of steps that is
\* zero or at least the minimum
Quantized(qty, symbol) == adjust_qty_to_lot_size(qty, symbol) = qty

\* C21: the quantities stored on the position are quantized values equal to
\* what is sent: after an entry they are the quantities of the entry orders,
\* they stay legal lot sizes (after a partial exit too), and a full close
\* sends exactly the stored quantities.
C21_StoredEqualsSent ==
  /\ (last.op = "enter" /\ position # NoPos) =>
        <<position.qty1, position.qty2>> = last.qtys
  /\ position # NoPos =>
        Quantized(position.qty1, "s1") /\ Quantized(position.qty2, "s2")
  /\ (last.op = "exit" /\ ~last.partial) =>
        last.qtys = <<last.pre.qty1, last.pre.qty2>>

\* C22: on a tick that evaluates an open position whose incremented
\* holding_bars has reached max_hold_bars the verdict is a full close (never
\* hold, never a partial exit), and if the two exit orders of that tick
\* succeed the position is none afterwards.
C22_BoundedHolding ==
  (EvaluatedOpen /\ last.pre.holding_bars >= cfg.MAX_HOLD_PERIOD_BARS) =>
    /\ last.op = "exit" /\ ~last.partial
    /\ last.reason \in {"STOP_LOSS", "EXIT_ZSCORE", "MAX_HOLD_PERIOD"}
    /\ last.legs = <<OK, OK>> => position = NoPos

\* C23: in an entry and in an exit the leg 1 order is always submitted, and
\* the leg 2 order is submitted only after the leg 1 order succeeded; a
\* failed operation never leaves leg 2 filled alone.
C23_LegAThenB ==
  last.op \in {"enter", "exit"} =>
    /\ last.legs[1] # NotSent
    /\ last.legs[2] # NotSent => last.legs[1] = OK
    /\ ~(last.legs[2] = OK /\ last.legs[1] # OK)

\* an exit whose leg 1 order failed, so that no leg 2 order was submitted
C23_Witness ==
  /\ last.op = "exit"
  /\ last.legs[1] \in Failures
  /\ last.legs[2] = NotSent

\* the orders the journal lists for a trade (none if it has no record)
OrdersOf(ts, trade_id) ==
  LET i == FirstIndex(ts, trade_id, FALSE)
  IN IF i = 0 THEN <<>> ELSE ts[i].orders

\* the number of leg orders the exchange accepted in the last iteration
Accepted ==
  (IF last.legs[1] = OK THEN 1 ELSE 0) + (IF last.legs[2] = OK THEN 1 ELSE 0)

\* C24: every leg order the exchange accepted for a trade is an order entry
\* of that trade's journal record: after an entry the record lists the two
\* entry orders, and every accepted exit order adds one entry to it.
C24_JournalComplete ==
  /\ (last.op = "enter" /\ position # NoPos) =>
        Len(OrdersOf(trades, position.trade_id)) = 2
  /\ last.op = "exit" =>
        Len(OrdersOf(trades, last.pre.trade_id))
          = Len(OrdersOf(last.journal, last.pre.trade_id)) + Accepted

\* C25: for each leg the quantity of a trade's accepted exit orders never
\* adds up to more than the quantity filled at its entry, and when a full
\* close has left no position it adds up to exactly that quantity.
C25_ExposureConserved ==
  last.op = "exit" =>
    /\ \A i \in {1, 2} : fills.exited[i] <= fills.entered[i]
    /\ position = NoPos => fills.exited = fills.entered

\* C26: under a valid configuration with 0 < exit_z < entry_z < stop_z the
\* exit evaluator never returns PARTIAL_EXIT and no position is ever
\* partially exited: wherever the partial-exit condition holds, the stop-loss
\* or the reversion exit decides.
C26_PartialExitUnreachable ==
  (Valid(cfg) /\ cfg.EXIT_ZSCORE > 0) =>
    /\ ~(last.op = "exit" /\ last.partial)
    /\ last.reason # "PARTIAL_EXIT"
    /\ position # NoPos => ~position.partial_exited
    /\ (EvaluatedOpen /\ ~last.pre.partial_exited
          /\ \/ last.pre.side = "long" /\ Le(last.z, 0)
             \/ last.pre.side = "short" /\ Ge(last.z, 0))
       => (last.op = "exit" /\ last.reason \in {"STOP_LOSS", "EXIT_ZSCORE"})

\* a tick under a valid configuration on which the partial-exit condition
\* held for a long position below its max hold and the stop-loss did not
\* fire: the reversion exit decided
C26_Witness ==
  /\ Valid(cfg) /\ cfg.EXIT_ZSCORE > 0
  /\ EvaluatedOpen
  /\ last.pre.side = "long" /\ Le(last.z, 0) /\ ~last.pre.partial_exited
  /\ last.pre.holding_bars < cfg.MAX_HOLD_PERIOD_BARS
  /\ ~AbsGe(last.z, cfg.STOP_LOSS_ZSCORE_THRESHOLD)
  /\ last.op = "exit" /\ last.reason = "EXIT_ZSCORE"

====
